---------------------------- MODULE Spec2Model ----------------------------
(***************************************************************************)
(* A model of the vocabulary-card service: the card layout computed by     *)
(* create_vocab_card_bytes (api/index.py), the call-to-action line         *)
(* wrapper, the word highlighter, font loading, the two HTTP handlers      *)
(* (api/index.py and api/vocabdaily.py) and the hourly posting job         *)
(* (bot.py).  Each part has its own specification over the variables of    *)
(* that part; the variables of the other parts stay at their initial       *)
(* values.                                                                 *)
(***************************************************************************)
EXTENDS Integers, Sequences, FiniteSets, TLC

VARIABLES
    \* ---- create_vocab_card_bytes (api/index.py) ----
    pc,               \* position in create_vocab_card_bytes
    data,             \* the word record being rendered
    cursor_y,         \* the running vertical cursor
    deriv_header_y,   \* y at which "DERIVATIVES" was drawn
    syn_header_y,     \* y at which "SYNONYMS" was drawn
    deriv_cursor_y,   \* bottom of the derivatives column
    syn_cursor_y,     \* bottom of the synonyms column
    cta_lines,        \* the wrapped call-to-action lines (token index lists)
    line_height,      \* height of one call-to-action line
    cta_start_y,      \* top of the call-to-action block
    box_top,          \* top of the usage box
    available_height, \* room left for the usage box
    content_height,   \* height the dry run computed for the examples
    box_height,       \* height of the usage box as drawn
    content_y,        \* the cursor of the usage-examples render pass
    drawn,            \* what the render pass drew, one record per sentence
    curr_cta_y,       \* the cursor of the call-to-action draw loop
    regions,          \* the blocks drawn so far, with the y they span
    \* ---- the call-to-action wrapper loop on its own ----
    w_words,          \* the tokens (their measured widths)
    w_budget,         \* max_cta_width
    w_i,              \* index of the next token of the for loop
    w_state,          \* [lines, current]: cta_lines and current_line
    w_pc,             \* "loop", "flush" or "done"
    \* ---- the word highlighter on its own ----
    hl_term,          \* data['term']
    hl_word,          \* one word of an example sentence
    hl_font,          \* the font chosen for the word
    \* ---- font loading ----
    f_files,          \* the font files that can be loaded
    f_pc,             \* index of the next font assignment
    fonts,            \* role -> how its font was obtained
    \* ---- handler.do_GET ----
    impl,             \* which handler: "index" or "vocabdaily"
    h_pc,             \* position in do_GET
    api_key,          \* GROQ_API_KEY is set
    source,           \* what fetch_source_data returned
    groq,             \* what the enrichment request did
    final_data,       \* what get_groq_enrichment returned
    enrich_raised,    \* an exception left get_groq_enrichment
    rendered,         \* create_vocab_card_bytes returned an image
    responses,        \* the statuses passed to send_response, in order
    body,             \* what was written to wfile, in order
    conn_lost,        \* the client has gone: writes to wfile raise
    \* ---- bot.py ----
    b_pc,             \* position in the schedule loop / job()
    waited,           \* seconds slept since the job was last due
    tick,             \* number of job() runs started
    credentials,      \* REDDIT_CONFIG["client_id"] is set
    image_file,       \* the temporary image file exists
    generated,        \* this run of job() generated an image file
    gen_attempts,     \* generate_content calls in this run of job()
    submit_attempts,  \* submit_image calls in this run of job()
    logged            \* what this run of job() logged as its failure

cardVars == << pc, data, cursor_y, deriv_header_y, syn_header_y,
               deriv_cursor_y, syn_cursor_y, cta_lines, line_height,
               cta_start_y, box_top, available_height, content_height,
               box_height, content_y, drawn, curr_cta_y, regions >>
\* what the layout steps before the render pass leave alone
renderVars == << content_y, drawn, curr_cta_y >>
wrapVars == << w_words, w_budget, w_i, w_state, w_pc >>
hlVars == << hl_term, hl_word, hl_font >>
fontVars == << f_files, f_pc, fonts >>
handlerVars == << impl, h_pc, api_key, source, groq, final_data,
                  enrich_raised, rendered, responses, body, conn_lost >>
botVars == << b_pc, waited, tick, credentials, image_file, generated,
              gen_attempts, submit_attempts, logged >>
vars == << cardVars, wrapVars, hlVars, fontVars, handlerVars, botVars >>

\* what an action of one part leaves alone: the other parts
notCard == << wrapVars, hlVars, fontVars, handlerVars, botVars >>
notWrap == << cardVars, hlVars, fontVars, handlerVars, botVars >>
notHl == << cardVars, wrapVars, fontVars, handlerVars, botVars >>
notFont == << cardVars, wrapVars, hlVars, handlerVars, botVars >>
notHandler == << cardVars, wrapVars, hlVars, fontVars, botVars >>
notBot == << cardVars, wrapVars, hlVars, fontVars, handlerVars >>

Max(a, b) == IF a >= b THEN a ELSE b
Min(a, b) == IF a <= b THEN a ELSE b

(***************************************************************************)
(* Bounds of the model.                                                    *)
(***************************************************************************)
MaxMeaningLines == 10   \* lines textwrap.wrap may return for the meaning
MaxItems == 2           \* derivatives / synonyms per column
MaxExamples == 1        \* example sentences
MaxWords == 2           \* words per example sentence
MaxTokens == 4          \* tokens given to the wrapper on its own
MaxStrLen == 3          \* characters of a term / word for the highlighter
MaxTicks == 2           \* runs of job() followed
MaxUsageExamples == 2   \* example sentences, for the two passes on their own
MaxUsageWords == 2      \* words per example sentence, likewise
(***************************************************************************)
(* Text.  A string is a sequence of one-character strings.                 *)
(***************************************************************************)
Letters == {"a", "b"}
Capitals == {"A", "B"}
Punctuation == {"-"}
Chars == Letters \cup Capitals \cup Punctuation

\* str.lower() on one character
LowerChar(c) ==
    CASE c = "A" -> "a"
      [] c = "B" -> "b"
      [] OTHER -> c

\* str.isalnum() on one character
IsAlnum(c) == c \in Letters \cup Capitals

RECURSIVE Lower(_)
Lower(str) ==
    IF str = << >> THEN << >>
    ELSE << LowerChar(Head(str)) >> \o Lower(Tail(str))

\* "".join(char for char in word if char.isalnum())
RECURSIVE KeepAlnum(_)
KeepAlnum(str) ==
    IF str = << >> THEN << >>
    ELSE (IF IsAlnum(Head(str)) THEN << Head(str) >> ELSE << >>)
         \o KeepAlnum(Tail(str))

\* Python's  sub in str
IsSubstring(sub, str) ==
    \E i \in 0..(Len(str) - Len(sub)) :
        \A k \in 1..Len(sub) : str[i + k] = sub[k]

\* target_word = data['term'].lower()
TargetWord(term) == Lower(term)

\* clean_word = "".join(char for char in word if char.isalnum()).lower()
CleanWord(word) == Lower(KeepAlnum(word))

\* is_target = target_word in clean_word
IsTarget(term, word) == IsSubstring(TargetWord(term), CleanWord(word))

\* fnt = bold_body_font if is_target else body_font
WordFont(term, word) == IF IsTarget(term, word) THEN "bold" ELSE "regular"

RECURSIVE StringsOfLen(_)
StringsOfLen(n) ==
    IF n = 0 THEN { << >> }
    ELSE { << c >> \o t : c \in Chars, t \in StringsOfLen(n - 1) }

\* the non-empty strings of at most n characters
Strings(n) == UNION { StringsOfLen(k) : k \in 1..n }

(***************************************************************************)
(* The highlighter on its own: a term, a word, and the font chosen.        *)
(***************************************************************************)
HlIdle ==
    /\ hl_term = << >> /\ hl_word = << >> /\ hl_font = "unset"

\* headwords: they begin and end with a letter
Terms(n) == { t \in Strings(n) : IsAlnum(t[1]) /\ IsAlnum(t[Len(t)]) }

HlInit ==
    /\ hl_term \in Terms(MaxStrLen)
    /\ hl_word \in Strings(MaxStrLen)
    /\ hl_font = "unset"

Classify ==
    /\ hl_font = "unset"
    /\ hl_font' = WordFont(hl_term, hl_word)
    /\ UNCHANGED << hl_term, hl_word >>
    /\ UNCHANGED notHl

(***************************************************************************)
(* The greedy wrapper of the call-to-action text.  A token is known by     *)
(* its measured width; a line is a sequence of tokens.  The measure of a   *)
(* line is what draw.textbbox reports for ' '.join(line).                  *)
(***************************************************************************)
RECURSIVE SumWidths(_)
SumWidths(line) ==
    IF line = << >> THEN 0 ELSE Head(line) + SumWidths(Tail(line))

\* bbox[2] - bbox[0] of draw.textbbox((0, 0), ' '.join(line), font=cta_font)
Measure(line, space) ==
    IF line = << >> THEN 0
    ELSE SumWidths(line) + space * (Len(line) - 1)

\* the loop body with the test dropped: the word always joins the line
WrapStepNoTest(st, word, space, budget) ==
    [st EXCEPT !.current = Append(st.current, word)]

\* one turn of  for word in words:
WrapStep(st, word, space, budget) ==
    LET test_line == Append(st.current, word)
    IN  IF Measure(test_line, space) <= budget
        THEN [st EXCEPT !.current = test_line]
        ELSE [lines |-> Append(st.lines, st.current), current |-> << word >>]

\* if current_line: cta_lines.append(' '.join(current_line))
WrapFlush(st) ==
    IF st.current # << >>
    THEN [lines |-> Append(st.lines, st.current), current |-> st.current]
    ELSE st

RECURSIVE WrapFrom(_, _, _, _)
WrapFrom(st, words, space, budget) ==
    IF words = << >> THEN WrapFlush(st).lines
    ELSE WrapFrom(WrapStep(st, Head(words), space, budget), Tail(words),
                  space, budget)

\* the whole wrap: cta_lines for the given tokens
WrapCta(words, space, budget) ==
    WrapFrom([lines |-> << >>, current |-> << >>], words, space, budget)

MaxTokenWidth == 4      \* widest token given to the wrapper on its own
MaxBudget == 4          \* widest budget given to the wrapper on its own

TokenSeqs == UNION { [1..n -> 1..MaxTokenWidth] : n \in 0..MaxTokens }

WrapIdle ==
    /\ w_words = << >> /\ w_budget = [max |-> 0, space |-> 0] /\ w_i = 1
    /\ w_state = [lines |-> << >>, current |-> << >>] /\ w_pc = "done"

WrapInit ==
    /\ w_words \in TokenSeqs
    /\ w_budget \in [max : 1..MaxBudget, space : 0..1]
    /\ w_i = 1
    /\ w_state = [lines |-> << >>, current |-> << >>]
    /\ w_pc = "loop"

\* for word in words: (one turn)
WrapWord ==
    /\ w_pc = "loop"
    /\ w_i <= Len(w_words)
    /\ w_state' = WrapStep(w_state, w_words[w_i], w_budget.space, w_budget.max)
    /\ w_i' = w_i + 1
    /\ UNCHANGED << w_words, w_budget, w_pc >>
    /\ UNCHANGED notWrap

\* the loop is over: the trailing flush
WrapEnd ==
    /\ w_pc = "loop"
    /\ w_i > Len(w_words)
    /\ w_state' = WrapFlush(w_state)
    /\ w_pc' = "done"
    /\ UNCHANGED << w_words, w_budget, w_i >>
    /\ UNCHANGED notWrap

(***************************************************************************)
(* create_vocab_card_bytes (api/index.py): the layout.                     *)
(***************************************************************************)
Base_W == 1200
Base_H == 1400

\* def s(pixels): return int(pixels * SCALE), with SCALE = 0.5
s(pixels) == pixels \div 2

W == s(Base_W)
H == s(Base_H)

margin_x == s(80)
FOOTER_FROM_BOTTOM == s(60)
footer_y == H - FOOTER_FROM_BOTTOM

\* what the text measurements may report
TitleHeights == {45, 58}                  \* title_h: bbox height of the term
MeaningLineCounts == {0, 2, MaxMeaningLines}   \* len(textwrap.wrap(meaning, 50))
CtaCharWidths == {6, 9, 20}               \* width of one cta_font character
CtaTextHeights == {11, 17}                \* bbox height of "Aj" in cta_font

\* lengths of the words of cta_text
CtaWordLens == << 10, 5, 1, 8, 5, 3, 2, 3, 11, 2, 3, 9 >>

\* the words example sentences are made of, and the term of the record
CardTerm == << "a", "b" >>
TargetWordText == << "A", "b", "-" >>
PlainWordText == << "b" >>
Vocabulary == { TargetWordText, PlainWordText }

\* word_bbox[2] - word_bbox[0] of draw.textbbox((0,0), word + " ", font=fnt)
WordWidth(word, fnt) ==
    CASE word = TargetWordText /\ fnt = "bold" -> 240
      [] word = TargetWordText /\ fnt = "regular" -> 200
      [] OTHER -> 150

Sentences == UNION { [1..n -> Vocabulary] : n \in 0..MaxWords }
ExampleLists == UNION { [1..n -> Sentences] : n \in 0..MaxExamples }

\* the records the renderer is given: derivatives and synonyms matter to
\* the layout by their number only
WordRecords ==
    [ term : { CardTerm },
      derivatives : { [i \in 1..n |-> "derivative"] : n \in 0..MaxItems },
      synonyms : { [i \in 1..n |-> "synonym"] : n \in 0..MaxItems },
      examples : ExampleLists ]

\* for line in wrapped_meaning: ... cursor_y += s(55)
RECURSIVE AfterLines(_, _)
AfterLines(y, n) == IF n = 0 THEN y ELSE AfterLines(y + s(55), n - 1)

\* for item in data[...]: ... <column cursor> += s(55)
RECURSIVE ColumnBottom(_, _)
ColumnBottom(y, items) ==
    IF items = << >> THEN y ELSE ColumnBottom(y + s(55), Tail(items))

\* the cursor after the block follows the derivatives column only
ColumnsCursorLeftOnly(deriv_bottom, syn_bottom) == deriv_bottom + s(40)

\* cursor_y = max(deriv_cursor_y, syn_cursor_y) + s(40)
ColumnsCursor(deriv_bottom, syn_bottom) ==
    Max(deriv_bottom, syn_bottom) + s(40)

\* max_cta_width = W - (2 * margin_x)
max_cta_width == W - (2 * margin_x)

\* text_start_x = margin_x + s(70)
text_start_x == margin_x + s(70)

\* usable_width = W - text_start_x - margin_x - s(40)
usable_width == W - text_start_x - margin_x - s(40)

\* the inner loop of the dry run: the line count of one sentence
RECURSIVE DryRunLines(_, _, _, _)
DryRunLines(term, words, curr_line_width, lines) ==
    IF words = << >> THEN lines
    ELSE LET word_w == WordWidth(Head(words), WordFont(term, Head(words)))
         IN  IF curr_line_width + word_w > usable_width
             THEN DryRunLines(term, Tail(words), word_w, lines + 1)
             ELSE DryRunLines(term, Tail(words), curr_line_width + word_w,
                              lines)

\* the outer loop of the dry run
RECURSIVE DryRunHeight(_, _, _)
DryRunHeight(term, examples, height) ==
    IF examples = << >> THEN height
    ELSE DryRunHeight(term, Tail(examples),
             height + (DryRunLines(term, Head(examples), 0, 1) * s(55)) + s(40))

\* content_height, from s(60) through the loop to  content_height += s(30)
ContentHeight(term, examples) == DryRunHeight(term, examples, s(60)) + s(30)

\* one block of the card: what it is and the y its drawing spans
Region(kind, top, bottom) == [kind |-> kind, top |-> top, bottom |-> bottom]

\* the floor is ignored and the cap with it: the box is as high as its content
UsageBoxHeightContentOnly(content, available) == content

\* the floor is missing: the box is min(content, available) as it is
UsageBoxHeightNoFloor(content, available) == Min(content, available)

\* box_height = min(content_height, available_height)
\* if box_height < s(100): box_height = s(100)
UsageBoxHeight(content, available) ==
    IF Min(content, available) < s(100) THEN s(100)
    ELSE Min(content, available)

CardIdle ==
    /\ pc = "idle"
    /\ data = [term |-> << >>, derivatives |-> << >>, synonyms |-> << >>,
               examples |-> << >>]
    /\ cursor_y = 0 /\ deriv_header_y = 0 /\ syn_header_y = 0
    /\ deriv_cursor_y = 0 /\ syn_cursor_y = 0
    /\ cta_lines = << >> /\ line_height = 0 /\ cta_start_y = 0
    /\ box_top = 0 /\ available_height = 0 /\ content_height = 0
    /\ box_height = 0
    /\ content_y = 0 /\ drawn = << >> /\ curr_cta_y = 0
    /\ regions = << >>

\* the call, up to  cursor_y = s(50)
CardInit ==
    /\ pc = "header"
    /\ data \in WordRecords
    /\ cursor_y = s(50)
    /\ deriv_header_y = 0 /\ syn_header_y = 0
    /\ deriv_cursor_y = 0 /\ syn_cursor_y = 0
    /\ cta_lines = << >> /\ line_height = 0 /\ cta_start_y = 0
    /\ box_top = 0 /\ available_height = 0 /\ content_height = 0
    /\ box_height = 0
    /\ content_y = 0 /\ drawn = << >> /\ curr_cta_y = 0
    /\ regions = << >>

\* 1. HEADER
Header ==
    /\ pc = "header"
    /\ \E title_h \in TitleHeights :
         /\ regions' = Append(regions,
                Region("header", cursor_y, cursor_y + title_h))
         /\ cursor_y' = cursor_y + title_h + s(40)
    /\ pc' = "definition"
    /\ UNCHANGED << data, deriv_header_y, syn_header_y, deriv_cursor_y,
                    syn_cursor_y, cta_lines, line_height, cta_start_y,
                    box_top, available_height, content_height, box_height >>
    /\ UNCHANGED renderVars
    /\ UNCHANGED notCard

\* 2. DEFINITION
Definition ==
    /\ pc = "definition"
    /\ \E n \in MeaningLineCounts :
         /\ regions' = Append(regions,
                Region("definition", cursor_y, AfterLines(cursor_y, n)))
         /\ cursor_y' = AfterLines(cursor_y, n) + s(40)
    /\ pc' = "separator1"
    /\ UNCHANGED << data, deriv_header_y, syn_header_y, deriv_cursor_y,
                    syn_cursor_y, cta_lines, line_height, cta_start_y,
                    box_top, available_height, content_height, box_height >>
    /\ UNCHANGED renderVars
    /\ UNCHANGED notCard

\* 3. SEPARATOR LINE 1
Separator1 ==
    /\ pc = "separator1"
    /\ regions' = Append(regions, Region("divider", cursor_y, cursor_y))
    /\ cursor_y' = cursor_y + s(50)
    /\ pc' = "columns"
    /\ UNCHANGED << data, deriv_header_y, syn_header_y, deriv_cursor_y,
                    syn_cursor_y, cta_lines, line_height, cta_start_y,
                    box_top, available_height, content_height, box_height >>
    /\ UNCHANGED renderVars
    /\ UNCHANGED notCard

\* 4. COLUMNS: Derivatives & Synonyms
Columns ==
    /\ pc = "columns"
    /\ deriv_header_y' = cursor_y
    /\ deriv_cursor_y' = ColumnBottom(cursor_y + s(60), data.derivatives)
    /\ syn_header_y' = cursor_y
    /\ syn_cursor_y' = ColumnBottom(cursor_y + s(60), data.synonyms)
    /\ cursor_y' = ColumnsCursor(deriv_cursor_y', syn_cursor_y')
    /\ regions' = Append(regions,
           Region("columns", cursor_y, Max(deriv_cursor_y', syn_cursor_y')))
    /\ pc' = "separator2"
    /\ UNCHANGED << data, cta_lines, line_height, cta_start_y, box_top,
                    available_height, content_height, box_height >>
    /\ UNCHANGED renderVars
    /\ UNCHANGED notCard

\* 5. SEPARATOR LINE 2
Separator2 ==
    /\ pc = "separator2"
    /\ regions' = Append(regions, Region("divider", cursor_y, cursor_y))
    /\ cursor_y' = cursor_y + s(60)
    /\ pc' = "cta"
    /\ UNCHANGED << data, deriv_header_y, syn_header_y, deriv_cursor_y,
                    syn_cursor_y, cta_lines, line_height, cta_start_y,
                    box_top, available_height, content_height, box_height >>
    /\ UNCHANGED renderVars
    /\ UNCHANGED notCard

\* CALCULATE CTA POSITION FIRST: wrap, block height, start y
CtaLayout ==
    /\ pc = "cta"
    /\ \E cw \in CtaCharWidths, text_h \in CtaTextHeights :
         /\ cta_lines' = WrapCta([i \in 1..Len(CtaWordLens) |-> CtaWordLens[i] * cw],
                                 cw, max_cta_width)
         /\ line_height' = text_h + s(15)
    /\ cta_start_y' = footer_y - (Len(cta_lines') * line_height') - s(80)
    /\ pc' = "usage_box"
    /\ UNCHANGED << data, cursor_y, deriv_header_y, syn_header_y,
                    deriv_cursor_y, syn_cursor_y, box_top, available_height,
                    content_height, box_height, regions >>
    /\ UNCHANGED renderVars
    /\ UNCHANGED notCard

\* 6. USAGE BOX: the dry run and the box that is drawn
UsageBox ==
    /\ pc = "usage_box"
    /\ box_top' = cursor_y
    /\ available_height' = cta_start_y - cursor_y - s(60)
    /\ content_height' = ContentHeight(data.term, data.examples)
    /\ box_height' = UsageBoxHeight(content_height', available_height')
    /\ regions' = Append(regions,
           Region("usage box", box_top', box_top' + box_height'))
    /\ pc' = "usage_content"
    /\ UNCHANGED << data, cursor_y, deriv_header_y, syn_header_y,
                    deriv_cursor_y, syn_cursor_y, cta_lines, line_height,
                    cta_start_y >>
    /\ UNCHANGED renderVars
    /\ UNCHANGED notCard

(***************************************************************************)
(* create_vocab_card_bytes: the usage-examples render pass, the            *)
(* call-to-action draw loop and the footer.                                *)
(***************************************************************************)
\* bullet_x = margin_x + s(30)
bullet_x == margin_x + s(30)

\* text_x = bullet_x + s(40)
text_x == bullet_x + s(40)

\* the right inset s(40) is forgotten
max_width_no_inset == W - margin_x

\* max_width = W - margin_x - s(40)
max_width == W - margin_x - s(40)

\* the bottom inset of the box: box_top + box_height - s(50)
BoxInset(top, height) == top + height - s(50)

\* the vertical check of the word loop is missing
LineRejectedNever(curr_line_y, inset) == FALSE

\* if curr_line_y > box_top + box_height - s(50): break   (the word loop)
LineRejected(curr_line_y, inset) == curr_line_y > inset

\* if content_y > box_top + box_height - s(50): break     (the sentence loop)
SentenceRejected(y, inset) == y > inset

\* the word loop of the render pass.  The result: the words drawn, whether
\* the loop was left by the break, and curr_line_y as the loop leaves it
RECURSIVE RenderWords(_, _, _, _, _, _)
RenderWords(term, words, curr_line_x, curr_line_y, inset, acc) ==
    IF words = << >>
    THEN [words |-> acc, cut |-> FALSE, curr_line_y |-> curr_line_y]
    ELSE LET word == Head(words)
             fnt == WordFont(term, word)
             word_w == WordWidth(word, fnt)
             wraps == curr_line_x + word_w > max_width
             x == IF wraps THEN text_x ELSE curr_line_x
             y == IF wraps THEN curr_line_y + s(55) ELSE curr_line_y
         IN  IF LineRejected(y, inset)
             THEN [words |-> acc, cut |-> TRUE, curr_line_y |-> y]
             ELSE RenderWords(term, Tail(words), x + word_w, y, inset,
                      Append(acc, [x |-> x, y |-> y, fnt |-> fnt]))

\* the sentence loop of the render pass.  The result: the final content_y
\* and, for every sentence the loop body ran for, where its bullet went
\* and what the word loop did
RECURSIVE RenderSentences(_, _, _, _, _)
RenderSentences(term, examples, y, inset, acc) ==
    IF examples = << >> \/ SentenceRejected(y, inset)
    THEN [content_y |-> y, drawn |-> acc]
    ELSE LET r == RenderWords(term, Head(examples), text_x, y, inset, << >>)
         IN  RenderSentences(term, Tail(examples), r.curr_line_y + s(75),
                 inset,
                 Append(acc, [bullet_y |-> y, words |-> r.words,
                              cut |-> r.cut, curr_line_y |-> r.curr_line_y]))

\* for line in cta_lines: ... curr_cta_y += line_height
RECURSIVE AfterCtaLines(_, _, _)
AfterCtaLines(y, lines, lh) ==
    IF lines = << >> THEN y ELSE AfterCtaLines(y + lh, Tail(lines), lh)

\* Usage Examples Content: the header and the render pass
UsageContent ==
    /\ pc = "usage_content"
    /\ LET r == RenderSentences(data.term, data.examples,
                    box_top + s(30) + s(60), BoxInset(box_top, box_height),
                    << >>)
       IN  content_y' = r.content_y /\ drawn' = r.drawn
    /\ UNCHANGED regions
    /\ pc' = "cta_draw"
    /\ UNCHANGED << data, cursor_y, deriv_header_y, syn_header_y,
                    deriv_cursor_y, syn_cursor_y, cta_lines, line_height,
                    cta_start_y, box_top, available_height, content_height,
                    box_height, curr_cta_y >>
    /\ UNCHANGED notCard

\* 7. DRAW CTA
CtaDraw ==
    /\ pc = "cta_draw"
    /\ curr_cta_y' = AfterCtaLines(cta_start_y, cta_lines, line_height)
    /\ regions' = Append(regions,
           Region("CTA banner", cta_start_y, curr_cta_y'))
    /\ pc' = "footer"
    /\ UNCHANGED << data, cursor_y, deriv_header_y, syn_header_y,
                    deriv_cursor_y, syn_cursor_y, cta_lines, line_height,
                    cta_start_y, box_top, available_height, content_height,
                    box_height, content_y, drawn >>
    /\ UNCHANGED notCard

\* 8. FOOTER, drawn at footer_y, and the image returned
Footer ==
    /\ pc = "footer"
    /\ regions' = Append(regions,
           Region("footer", footer_y, footer_y - s(5) + s(45)))
    /\ pc' = "returned"
    /\ UNCHANGED << data, cursor_y, deriv_header_y, syn_header_y,
                    deriv_cursor_y, syn_cursor_y, cta_lines, line_height,
                    cta_start_y, box_top, available_height, content_height,
                    box_height >>
    /\ UNCHANGED renderVars
    /\ UNCHANGED notCard

\* records with up to MaxUsageExamples sentences of up to MaxUsageWords
\* words, and neither derivatives nor synonyms
UsageSentences == UNION { [1..n -> Vocabulary] : n \in 0..MaxUsageWords }
UsageExampleLists ==
    UNION { [1..n -> UsageSentences] : n \in 0..MaxUsageExamples }
UsageRecords ==
    [ term : { CardTerm }, derivatives : { << >> }, synonyms : { << >> },
      examples : UsageExampleLists ]

\* the call, up to  cursor_y = s(50), for such a record
UsageInit ==
    /\ pc = "header"
    /\ data \in UsageRecords
    /\ cursor_y = s(50)
    /\ deriv_header_y = 0 /\ syn_header_y = 0
    /\ deriv_cursor_y = 0 /\ syn_cursor_y = 0
    /\ cta_lines = << >> /\ line_height = 0 /\ cta_start_y = 0
    /\ box_top = 0 /\ available_height = 0 /\ content_height = 0
    /\ box_height = 0
    /\ content_y = 0 /\ drawn = << >> /\ curr_cta_y = 0
    /\ regions = << >>

(***************************************************************************)
(* Font loading at the top of create_vocab_card_bytes (api/index.py).      *)
(***************************************************************************)
FontFiles == { "Roboto-Bold.ttf", "Roboto-Italic.ttf", "Roboto-Regular.ttf",
               "arial.ttf" }

\* the assignments of the try block, in order
FontPlan ==
    << [role |-> "title_font", file |-> "Roboto-Bold.ttf"],
       [role |-> "pos_font", file |-> "Roboto-Italic.ttf"],
       [role |-> "little_pos_font", file |-> "Roboto-Italic.ttf"],
       [role |-> "body_font", file |-> "Roboto-Regular.ttf"],
       [role |-> "bold_body_font", file |-> "Roboto-Bold.ttf"],
       [role |-> "header_font", file |-> "Roboto-Bold.ttf"],
       [role |-> "small_font", file |-> "Roboto-Regular.ttf"],
       [role |-> "cta_font", file |-> "arial.ttf"] >>

FontRoles == { FontPlan[i].role : i \in 1..Len(FontPlan) }

\* the names the except branch assigns ImageFont.load_default() to
ResetRoles == { "title_font", "pos_font", "body_font", "bold_body_font",
                "header_font", "small_font", "cta_font" }

\* get_font: ImageFont.truetype, or load_default when that raises
get_font(font_name, files) ==
    IF font_name \in files THEN "truetype" ELSE "default"

FontIdle ==
    /\ f_files = {} /\ f_pc = 0 /\ fonts = [r \in FontRoles |-> "unset"]

FontInit ==
    /\ f_files \in SUBSET FontFiles
    /\ f_pc = 1
    /\ fonts = [r \in FontRoles |-> "unset"]

\* <role> = get_font(<file>, s(..)), the first seven assignments
GetFont ==
    /\ f_pc \in 1..(Len(FontPlan) - 1)
    /\ fonts' = [fonts EXCEPT ![FontPlan[f_pc].role] =
                                  get_font(FontPlan[f_pc].file, f_files)]
    /\ f_pc' = f_pc + 1
    /\ UNCHANGED f_files
    /\ UNCHANGED notFont

\* cta_font = ImageFont.truetype("arial.ttf", s(37)) returns
LoadCtaFont ==
    /\ f_pc = Len(FontPlan)
    /\ FontPlan[f_pc].file \in f_files
    /\ fonts' = [fonts EXCEPT !["cta_font"] = "truetype"]
    /\ f_pc' = f_pc + 1
    /\ UNCHANGED f_files
    /\ UNCHANGED notFont

\* it raises IOError: the except branch resets the fonts it names
CtaFontMissing ==
    /\ f_pc = Len(FontPlan)
    /\ FontPlan[f_pc].file \notin f_files
    /\ fonts' = [r \in FontRoles |->
                    IF r \in ResetRoles THEN "default" ELSE fonts[r]]
    /\ f_pc' = f_pc + 1
    /\ UNCHANGED f_files
    /\ UNCHANGED notFont

(***************************************************************************)
(* handler.do_GET of api/index.py and of api/vocabdaily.py, with the       *)
(* functions it calls.  A dictionary is known by the keys it has; a value  *)
(* of a record is known by where it came from.                             *)
(***************************************************************************)
SourceKeys == { "term", "meaning", "synonyms", "example" }
Fields == { "term", "pos", "meaning", "derivatives", "synonyms", "examples" }

\* fetch_source_data returns None, or the 'data' of the response as it is
NoSource == [got |-> FALSE, keys |-> {}]
SourceShapes == { [got |-> TRUE, keys |-> K] : K \in SUBSET SourceKeys }

\* Python's  not source : None and the empty dictionary
Falsy(src) == ~src.got \/ src.keys = {}

\* how the enrichment request can fail inside the try block
GroqFailures == { "request_error", "non_2xx", "no_choices", "unparseable" }

NoData == [origin |-> "none", keys |-> {}, term |-> "absent",
           meaning |-> "absent"]

\* json.loads(content): a dictionary with whatever keys the model wrote
ParsedJson(K) ==
    [origin |-> "groq", keys |-> K,
     term |-> IF "term" \in K THEN "groq" ELSE "absent",
     meaning |-> IF "meaning" \in K THEN "groq" ELSE "absent"]

\* api/index.py, the except branch of get_groq_enrichment; it reads
\* source_data['term'] and source_data['meaning']
IndexFallback(src) ==
    [origin |-> "degraded", keys |-> Fields, term |-> "source",
     meaning |-> "source"]

\* api/vocabdaily.py, the except branch: source_data.get('term'),
\* source_data.get('meaning')
VocabFallback(src) ==
    [origin |-> "degraded", keys |-> Fields,
     term |-> IF "term" \in src.keys THEN "source" ELSE "None",
     meaning |-> IF "meaning" \in src.keys THEN "source" ELSE "None"]

\* api/vocabdaily.py, no API key: .get with a default for every field
VocabRaw(src) ==
    [origin |-> "raw", keys |-> Fields,
     term |-> IF "term" \in src.keys THEN "source" ELSE "placeholder",
     meaning |-> IF "meaning" \in src.keys THEN "source" ELSE "placeholder"]

\* api/index.py create_vocab_card_bytes reads data[<field>] for all six
IndexRenders(d) == Fields \subseteq d.keys

\* api/vocabdaily.py create_vocab_card_bytes: data.get everywhere; with the
\* fonts found the term is capitalized and the meaning wrapped
VocabRenders(d, is_default) ==
    is_default \/ (d.term # "None" /\ d.meaning # "None")

HandlerIdle ==
    /\ impl = "none" /\ h_pc = "idle" /\ api_key = FALSE /\ source = NoSource
    /\ groq = "none" /\ final_data = NoData /\ enrich_raised = FALSE
    /\ rendered = FALSE /\ responses = << >> /\ body = << >>
    /\ conn_lost = FALSE

HandlerInit ==
    /\ impl \in { "index", "vocabdaily" }
    /\ api_key \in BOOLEAN
    /\ h_pc = "fetch"
    /\ source = NoSource /\ groq = "none" /\ final_data = NoData
    /\ enrich_raised = FALSE /\ rendered = FALSE
    /\ responses = << >> /\ body = << >> /\ conn_lost = FALSE

\* source = fetch_source_data();  vocabdaily: if not source: raise
FetchSource ==
    /\ h_pc = "fetch"
    /\ source' \in { NoSource } \cup SourceShapes
    /\ h_pc' = IF impl = "vocabdaily" /\ Falsy(source') THEN "except"
               ELSE "enrich"
    /\ UNCHANGED << impl, api_key, groq, final_data, enrich_raised, rendered,
                    responses, body, conn_lost >>
    /\ UNCHANGED notHandler

\* final_data = get_groq_enrichment(source), api/index.py
EnrichIndex ==
    /\ h_pc = "enrich" /\ impl = "index"
    /\ \/ \* word = source_data['term'] raises, before the try block
          /\ (~source.got \/ "term" \notin source.keys)
          /\ enrich_raised' = TRUE /\ h_pc' = "except"
          /\ UNCHANGED << groq, final_data >>
       \/ \* the request fails: the except branch
          /\ source.got /\ "term" \in source.keys
          /\ groq' \in GroqFailures
          /\ IF "meaning" \in source.keys
             THEN /\ final_data' = IndexFallback(source)
                  /\ enrich_raised' = FALSE /\ h_pc' = "render"
             ELSE /\ enrich_raised' = TRUE /\ h_pc' = "except"
                  /\ UNCHANGED final_data
       \/ \* the content parses: it is returned as it is
          /\ source.got /\ "term" \in source.keys
          /\ api_key
          /\ groq' = "json"
          /\ \E K \in SUBSET Fields : final_data' = ParsedJson(K)
          /\ enrich_raised' = FALSE /\ h_pc' = "render"
    /\ UNCHANGED << impl, api_key, source, rendered, responses, body,
                    conn_lost >>
    /\ UNCHANGED notHandler

\* final_data = get_groq_enrichment(source), api/vocabdaily.py
EnrichVocabdaily ==
    /\ h_pc = "enrich" /\ impl = "vocabdaily"
    /\ \/ \* no API key: the raw record
          /\ ~api_key
          /\ final_data' = VocabRaw(source)
          /\ enrich_raised' = FALSE /\ h_pc' = "render"
          /\ UNCHANGED groq
       \/ \* the prompt reads source_data['term'], before the try block
          /\ api_key /\ "term" \notin source.keys
          /\ enrich_raised' = TRUE /\ h_pc' = "except"
          /\ UNCHANGED << groq, final_data >>
       \/ \* the request fails: the except branch
          /\ api_key /\ "term" \in source.keys
          /\ groq' \in GroqFailures
          /\ final_data' = VocabFallback(source)
          /\ enrich_raised' = FALSE /\ h_pc' = "render"
       \/ \* the content parses
          /\ api_key /\ "term" \in source.keys
          /\ groq' = "json"
          /\ \E K \in SUBSET Fields : final_data' = ParsedJson(K)
          /\ enrich_raised' = FALSE /\ h_pc' = "render"
    /\ UNCHANGED << impl, api_key, source, rendered, responses, body,
                    conn_lost >>
    /\ UNCHANGED notHandler

\* image_bytes = create_vocab_card_bytes(final_data), api/index.py
RenderIndex ==
    /\ h_pc = "render" /\ impl = "index"
    /\ rendered' = IndexRenders(final_data)
    /\ h_pc' = IF rendered' THEN "respond" ELSE "except"
    /\ UNCHANGED << impl, api_key, source, groq, final_data, enrich_raised,
                    responses, body, conn_lost >>
    /\ UNCHANGED notHandler

\* image_bytes = create_vocab_card_bytes(final_data), api/vocabdaily.py
RenderVocabdaily ==
    /\ h_pc = "render" /\ impl = "vocabdaily"
    /\ \E is_default \in BOOLEAN : rendered' = VocabRenders(final_data, is_default)
    /\ h_pc' = IF rendered' THEN "respond" ELSE "except"
    /\ UNCHANGED << impl, api_key, source, groq, final_data, enrich_raised,
                    responses, body, conn_lost >>
    /\ UNCHANGED notHandler

\* self.send_response(200); send_header; end_headers
SendOk ==
    /\ h_pc = "respond"
    /\ responses' = Append(responses, 200)
    /\ h_pc' = "write"
    /\ UNCHANGED << impl, api_key, source, groq, final_data, enrich_raised,
                    rendered, body, conn_lost >>
    /\ UNCHANGED notHandler

\* self.wfile.write(image_bytes.getvalue()): written, or the client has
\* gone and the write raises
WriteImage ==
    /\ h_pc = "write"
    /\ \/ /\ body' = Append(body, "image") /\ h_pc' = "done"
          /\ UNCHANGED conn_lost
       \/ /\ conn_lost' = TRUE /\ h_pc' = "except"
          /\ UNCHANGED body
    /\ UNCHANGED << impl, api_key, source, groq, final_data, enrich_raised,
                    rendered, responses >>
    /\ UNCHANGED notHandler

\* except Exception: self.send_response(500); self.wfile.write(<text>)
SendError ==
    /\ h_pc = "except"
    /\ responses' = Append(responses, 500)
    /\ IF conn_lost
       THEN h_pc' = "raised" /\ UNCHANGED body
       ELSE h_pc' = "done" /\ body' = Append(body, "error text")
    /\ UNCHANGED << impl, api_key, source, groq, final_data, enrich_raised,
                    rendered, conn_lost >>
    /\ UNCHANGED notHandler

(***************************************************************************)
(* bot.py: the schedule loop and job().                                    *)
(***************************************************************************)
SleepSeconds == 60      \* time.sleep(60)
HourSeconds == 3600     \* schedule.every().hour

\* what vocabdaily.generate_content() may do: write the image file and
\* return (image_path, data), return (None, None), or raise
GenerateOutcomes == { "image", "nothing", "raises" }

\* the handler retries the generation instead of returning
JobExceptRetries == "generate"

\* except Exception as e: print(...) -- job() returns to the loop
JobExcept == "sleep"

BotIdle ==
    /\ b_pc = "idle" /\ waited = 0 /\ tick = 0 /\ credentials = FALSE
    /\ image_file = FALSE /\ generated = FALSE /\ gen_attempts = 0
    /\ submit_attempts = 0 /\ logged = "none"

\* schedule.every().hour.do(job); the loop is entered
BotInit ==
    /\ b_pc = "run_pending" /\ waited = 0 /\ tick = 0
    /\ credentials \in BOOLEAN
    /\ image_file = FALSE /\ generated = FALSE /\ gen_attempts = 0
    /\ submit_attempts = 0 /\ logged = "none"

\* schedule.run_pending() with the job not yet due
NotDue ==
    /\ b_pc = "run_pending"
    /\ waited < HourSeconds
    /\ b_pc' = "sleep"
    /\ UNCHANGED << waited, tick, credentials, image_file, generated,
                    gen_attempts, submit_attempts, logged >>
    /\ UNCHANGED notBot

\* schedule.run_pending() with the job due: job() is entered
JobStart ==
    /\ b_pc = "run_pending"
    /\ waited >= HourSeconds
    /\ tick < MaxTicks
    /\ tick' = tick + 1
    /\ waited' = 0
    /\ generated' = FALSE /\ gen_attempts' = 0 /\ submit_attempts' = 0
    /\ logged' = "none"
    /\ b_pc' = "credentials"
    /\ UNCHANGED << credentials, image_file >>
    /\ UNCHANGED notBot

\* time.sleep(60)
Sleep ==
    /\ b_pc = "sleep"
    /\ waited' = Min(waited + SleepSeconds, HourSeconds)
    /\ b_pc' = "run_pending"
    /\ UNCHANGED << tick, credentials, image_file, generated, gen_attempts,
                    submit_attempts, logged >>
    /\ UNCHANGED notBot

\* if not REDDIT_CONFIG["client_id"]: print(...); return
CheckCredentials ==
    /\ b_pc = "credentials"
    /\ IF credentials
       THEN b_pc' = "reddit" /\ UNCHANGED logged
       ELSE b_pc' = "sleep" /\ logged' = "credentials missing"
    /\ UNCHANGED << waited, tick, credentials, image_file, generated,
                    gen_attempts, submit_attempts >>
    /\ UNCHANGED notBot

\* reddit = praw.Reddit(**REDDIT_CONFIG); subreddit = reddit.subreddit(..)
InitReddit ==
    /\ b_pc = "reddit"
    /\ \/ b_pc' = "generate" /\ UNCHANGED logged
       \/ b_pc' = JobExcept /\ logged' = "critical error"
    /\ UNCHANGED << waited, tick, credentials, image_file, generated,
                    gen_attempts, submit_attempts >>
    /\ UNCHANGED notBot

\* image_path, data = vocabdaily.generate_content(); if image_path and data
Generate ==
    /\ b_pc = "generate"
    /\ gen_attempts' = gen_attempts + 1
    /\ \E outcome \in GenerateOutcomes :
         CASE outcome = "image" ->
                /\ image_file' = TRUE /\ generated' = TRUE
                /\ b_pc' = "submit" /\ UNCHANGED logged
           [] outcome = "nothing" ->
                /\ b_pc' = "sleep" /\ logged' = "failed to generate"
                /\ UNCHANGED << image_file, generated >>
           [] outcome = "raises" ->
                /\ b_pc' = JobExcept /\ logged' = "critical error"
                /\ UNCHANGED << image_file, generated >>
    /\ UNCHANGED << waited, tick, credentials, submit_attempts >>
    /\ UNCHANGED notBot

\* subreddit.submit_image(title=title, image_path=image_path)
Submit ==
    /\ b_pc = "submit"
    /\ submit_attempts' = submit_attempts + 1
    /\ \/ b_pc' = "cleanup" /\ UNCHANGED logged
       \/ b_pc' = JobExcept /\ logged' = "critical error"
    /\ UNCHANGED << waited, tick, credentials, image_file, generated,
                    gen_attempts >>
    /\ UNCHANGED notBot

\* if os.path.exists(image_path): os.remove(image_path)
Cleanup ==
    /\ b_pc = "cleanup"
    /\ image_file' = FALSE
    /\ b_pc' = "sleep"
    /\ UNCHANGED << waited, tick, credentials, generated, gen_attempts,
                    submit_attempts, logged >>
    /\ UNCHANGED notBot

(***************************************************************************)
(* The specifications.                                                     *)
(***************************************************************************)
\* the card layout
Init == CardInit /\ WrapIdle /\ HlIdle /\ FontIdle /\ HandlerIdle /\ BotIdle
Next ==
    \/ Header \/ Definition \/ Separator1 \/ Columns \/ Separator2
    \/ CtaLayout \/ UsageBox \/ UsageContent \/ CtaDraw \/ Footer
Spec == Init /\ [][Next]_vars

\* the card layout for records with more example sentences
InitUsage ==
    UsageInit /\ WrapIdle /\ HlIdle /\ FontIdle /\ HandlerIdle /\ BotIdle
SpecUsage == InitUsage /\ [][Next]_vars

\* the wrapper on its own
InitWrap == CardIdle /\ WrapInit /\ HlIdle /\ FontIdle /\ HandlerIdle /\ BotIdle
NextWrap == WrapWord \/ WrapEnd
SpecWrap == InitWrap /\ [][NextWrap]_vars

\* the highlighter on its own
InitHighlight ==
    CardIdle /\ WrapIdle /\ HlInit /\ FontIdle /\ HandlerIdle /\ BotIdle
NextHighlight == Classify
SpecHighlight == InitHighlight /\ [][NextHighlight]_vars

\* font loading
InitFonts ==
    CardIdle /\ WrapIdle /\ HlIdle /\ FontInit /\ HandlerIdle /\ BotIdle
NextFonts == GetFont \/ LoadCtaFont \/ CtaFontMissing
SpecFonts == InitFonts /\ [][NextFonts]_vars

\* the two handlers
InitHandler ==
    CardIdle /\ WrapIdle /\ HlIdle /\ FontIdle /\ HandlerInit /\ BotIdle
NextHandler ==
    \/ FetchSource \/ EnrichIndex \/ EnrichVocabdaily \/ RenderIndex
    \/ RenderVocabdaily \/ SendOk \/ WriteImage \/ SendError
SpecHandler == InitHandler /\ [][NextHandler]_vars

\* the posting bot
InitBot ==
    CardIdle /\ WrapIdle /\ HlIdle /\ FontIdle /\ HandlerIdle /\ BotInit
NextBot ==
    \/ NotDue \/ JobStart \/ Sleep \/ CheckCredentials \/ InitReddit
    \/ Generate \/ Submit \/ Cleanup
SpecBot == InitBot /\ [][NextBot]_vars

(***************************************************************************)
(* The properties.                                                         *)
(***************************************************************************)

\* C1 as stated: whenever the usage box has been sized, box_height is at
\* least the minimum s(100), at most available_height
\* (= cta_start_y - box_top - s(60)), and not negative.
C1_BoxWithinAvailable ==
    pc = "usage_content" =>
        /\ box_height >= s(100)
        /\ box_height <= cta_start_y - box_top - s(60)
        /\ box_height >= 0

\* C1 as amended: the box is never lower than s(100) (so never negative);
\* it stays within available_height whenever available_height is itself at
\* least s(100); when available_height is below s(100) the floor wins and
\* the box is exactly s(100) high.
C1_BoxFlooredThenCapped ==
    pc = "usage_content" =>
        /\ available_height = cta_start_y - box_top - s(60)
        /\ box_height >= s(100)
        /\ box_height >= 0
        /\ (available_height >= s(100) => box_height <= available_height)
        /\ (available_height < s(100) => box_height = s(100))

\* C1's case: a sized box whose available height is below the minimum
C1_Witness ==
    /\ pc = "usage_content"
    /\ available_height < s(100)
    /\ box_height = s(100)

\* C2: every line the call-to-action wrapper has emitted either measures
\* at most the budget or is exactly one token of the input, itself wider
\* than the budget.
C2_LinesFitOrSingleToken ==
    \A k \in 1..Len(w_state.lines) :
        LET line == w_state.lines[k]
        IN  \/ Measure(line, w_budget.space) <= w_budget.max
            \/ /\ Len(line) = 1
               /\ line[1] > w_budget.max
               /\ \E j \in 1..Len(w_words) : w_words[j] = line[1]

\* C2's case: a finished wrap that emitted an over-wide token alone and
\* also a line of several tokens
C2_Witness ==
    /\ w_pc = "done"
    /\ \E k \in 1..Len(w_state.lines) :
           Len(w_state.lines[k]) = 1 /\ w_state.lines[k][1] > w_budget.max
    /\ \E k \in 1..Len(w_state.lines) : Len(w_state.lines[k]) >= 2

\* strip the non-alphanumeric characters and lower-case
Norm(str) == Lower(KeepAlnum(str))

\* C3: a classified word is bold if and only if norm(term) is a substring
\* of norm(word), norm being applied to the term as well as to the word.
C3_BoldIffNormOfBoth ==
    hl_font # "unset" =>
        (hl_font = "bold" <=> IsSubstring(Norm(hl_term), Norm(hl_word)))

\* C10: right after the two-column block both headers were drawn at the
\* same y, each column bottom is the header y plus s(60) plus s(55) per
\* item, and the cursor is the larger bottom plus s(40); with both lists
\* empty both bottoms are the header y plus s(60).
C10_ColumnsCursor ==
    pc = "separator2" =>
        LET deriv_bottom ==
                deriv_header_y + s(60) + (Len(data.derivatives) * s(55))
            syn_bottom ==
                syn_header_y + s(60) + (Len(data.synonyms) * s(55))
        IN  /\ deriv_header_y = syn_header_y
            /\ deriv_cursor_y = deriv_bottom
            /\ syn_cursor_y = syn_bottom
            /\ cursor_y = Max(deriv_bottom, syn_bottom) + s(40)
            /\ (data.derivatives = << >> /\ data.synonyms = << >>) =>
                   /\ deriv_cursor_y = deriv_header_y + s(60)
                   /\ syn_cursor_y = deriv_header_y + s(60)
                   /\ cursor_y = deriv_header_y + s(60) + s(40)

\* C10's case: the block was laid out with the synonyms column the longer
C10_Witness ==
    /\ pc = "separator2"
    /\ Len(data.synonyms) > Len(data.derivatives)
    /\ syn_cursor_y > deriv_cursor_y

\* C9: once the fonts are loaded every role has a font, a role whose file
\* could not be loaded has the built-in font, and a role whose file could
\* be loaded has the font loaded from it.
C9_FallbackPerRoleOnly ==
    f_pc > Len(FontPlan) =>
        \A i \in 1..Len(FontPlan) :
            /\ fonts[FontPlan[i].role] # "unset"
            /\ FontPlan[i].file \notin f_files =>
                   fonts[FontPlan[i].role] = "default"
            /\ FontPlan[i].file \in f_files =>
                   fonts[FontPlan[i].role] = "truetype"

\* C4: whenever the fetch returned source data and the enrichment request
\* failed, no exception left get_groq_enrichment, the record it returned is
\* the degraded one carrying the source term and a meaning (the source
\* meaning when the source has one), and the handler answered 200.
C4_EnrichmentFailureStillACard ==
    (source.got /\ groq \in GroqFailures) =>
        /\ ~enrich_raised
        /\ final_data.origin = "degraded"
        /\ final_data.term = "source"
        /\ final_data.meaning \notin { "absent", "None" }
        /\ ("meaning" \in source.keys => final_data.meaning = "source")
        /\ (h_pc \in { "done", "raised" } =>
                Len(responses) >= 1 /\ responses[1] = 200)

\* C5: every record handed to create_vocab_card_bytes has all six fields.
C5_AllFieldsDefined ==
    h_pc = "render" => Fields \subseteq final_data.keys

\* C6: a handled GET sent exactly one status, 200 with the image when the
\* card was rendered and 500 with the error text otherwise; and after a
\* failed fetch no image was rendered or written.
C6_ExactlyOneStatus ==
    /\ h_pc \in { "done", "raised" } =>
           /\ Len(responses) = 1
           /\ (responses[1] = 200 <=> rendered)
           /\ (responses[1] = 200 => body = << "image" >>)
           /\ (responses[1] = 500 => body = << "error text" >>)
    /\ (h_pc # "fetch" /\ ~source.got) =>
           (~rendered /\ \A k \in 1..Len(body) : body[k] # "image")

\* C7: whenever job() has returned from a run in which the image file was
\* generated, the file no longer exists.
C7_ImageFileRemoved ==
    (b_pc \in { "sleep", "run_pending" } /\ generated) => ~image_file

\* C8: within one run of job() there is at most one generation attempt and
\* at most one submission attempt, and a run that has logged a failure has
\* returned to the schedule loop: nothing of job() runs again before the
\* next due tick.
C8_OneAttemptPerTick ==
    /\ gen_attempts <= 1
    /\ submit_attempts <= 1
    /\ logged # "none" => b_pc \in { "sleep", "run_pending" }

\* C8's case: the run before failed at the submission (its image file is
\* still there) and the loop has started the next run
C8_Witness ==
    /\ tick = 2
    /\ b_pc = "generate"
    /\ image_file
    /\ gen_attempts = 0

(***************************************************************************)
(* The two passes over the example sentences, and the order of the blocks. *)
(***************************************************************************)
\* the render pass has run
Rendered == pc \in {"cta_draw", "footer", "returned"}

\* the lines the render pass used for the sentence of one record of drawn
LinesUsed(d) == ((d.curr_line_y - d.bullet_y) \div s(55)) + 1

\* the y from which a wrapped line is no longer drawn
Inset == BoxInset(box_top, box_height)

\* C11: for every sentence the render pass drew without hitting the
\* vertical cut-off, the number of lines it used is the number of lines the
\* dry run counted for that sentence, the words being measured in the font
\* the same classification gives them: the width a line may take is the
\* same in both passes.
C11_PassesAgreeOnLines ==
    /\ max_width - text_x = usable_width
    /\ Rendered =>
        \A i \in 1..Len(drawn) :
            ~drawn[i].cut =>
                /\ Len(drawn[i].words) = Len(data.examples[i])
                /\ LinesUsed(drawn[i])
                       = DryRunLines(data.term, data.examples[i], 0, 1)

\* C11's case: a sentence drawn to its end on two lines, the second begun
\* by a highlighted word
C11_Witness ==
    /\ Rendered
    /\ \E i \in 1..Len(drawn) :
           /\ ~drawn[i].cut
           /\ LinesUsed(drawn[i]) = 2
           /\ Len(drawn[i].words) = 2
           /\ drawn[i].words[2].fnt = "bold"
           /\ drawn[i].words[2].x = text_x

\* C12: the render pass draws no bullet and no word of an example at a y
\* beyond the inset box_top + box_height - s(50); the sentence whose line
\* was rejected is the last one the pass touched and only the words before
\* that line are drawn; sentences the pass left out begin beyond the inset;
\* the pass ends with every sentence either drawn or left out.
C12_NothingDrawnBeyondInset ==
    Rendered =>
        /\ Len(drawn) <= Len(data.examples)
        /\ \A i \in 1..Len(drawn) :
               /\ drawn[i].bullet_y <= Inset
               /\ Len(drawn[i].words) <= Len(data.examples[i])
               /\ \A k \in 1..Len(drawn[i].words) :
                      drawn[i].words[k].y <= Inset
               /\ drawn[i].cut =>
                      /\ i = Len(drawn)
                      /\ Len(drawn[i].words) < Len(data.examples[i])
                      /\ drawn[i].curr_line_y > Inset
               /\ ~drawn[i].cut =>
                      Len(drawn[i].words) = Len(data.examples[i])
        /\ Len(drawn) < Len(data.examples) => content_y > Inset

\* C12's case: the second line of a sentence was rejected after its first
\* line had been drawn, and a later sentence was left out
C12_Witness ==
    /\ Rendered
    /\ \E i \in 1..Len(drawn) :
           /\ drawn[i].cut
           /\ Len(drawn[i].words) >= 1
           /\ Len(data.examples) > i
           /\ Len(data.examples[i + 1]) >= 1

\* the blocks are all drawn
Returned == pc = "returned"

\* the kinds of the blocks, in the order the card shows them
RegionKinds == << "header", "definition", "divider", "columns", "divider",
                  "usage box", "CTA banner", "footer" >>

\* the blocks from the header to the top of the usage box follow one
\* another: each begins where the one before has ended, or lower
CursorOrdered ==
    /\ Len(regions) = Len(RegionKinds)
    /\ \A i \in 1..Len(regions) :
           /\ regions[i].kind = RegionKinds[i]
           /\ regions[i].top <= regions[i].bottom
    /\ \A i \in 1..5 : regions[i].bottom <= regions[i + 1].top

\* the call to action ends above the footer, whose icon begins at
\* footer_y - s(5)
CtaAboveFooter ==
    /\ regions[7].top = cta_start_y
    /\ regions[7].bottom = cta_start_y + (Len(cta_lines) * line_height)
    /\ regions[7].bottom <= footer_y - s(5)
    /\ regions[8].top = footer_y

\* C13 as stated: on every card the blocks lie in the order header,
\* definition, divider, columns, divider, usage box, call to action, footer
\* and none overlaps the next; the bottom of the usage box
\* (box_top + box_height) is not below cta_start_y and the bottom of the
\* call to action is not below footer_y.
C13_RegionsOrdered ==
    Returned =>
        /\ CursorOrdered
        /\ CtaAboveFooter
        /\ regions[6].bottom = box_top + box_height
        /\ box_top + box_height <= cta_start_y

\* C13 as amended: the blocks from the header to the top of the usage box
\* lie in order without overlap, and so do the call to action and the
\* footer; the usage box ends s(60) or more above the call to action
\* whenever available_height is at least s(100); below that the box is
\* s(100) high and ends above cta_start_y only while available_height is
\* at least s(100) - s(60), so that for smaller available heights the box
\* overlaps the call to action.
C13_OrderedUnlessBoxFloored ==
    Returned =>
        /\ CursorOrdered
        /\ CtaAboveFooter
        /\ regions[6].top = box_top
        /\ regions[6].bottom = box_top + box_height
        /\ available_height >= s(100) =>
               box_top + box_height <= cta_start_y - s(60)
        /\ (box_top + box_height <= cta_start_y)
               <=> (available_height >= s(100) - s(60))

\* C13's case: a finished card whose usage box was cut down to the
\* available height and ends exactly s(60) above the call to action
C13_Witness ==
    /\ Returned
    /\ available_height >= s(100)
    /\ content_height > available_height
    /\ box_top + box_height = cta_start_y - s(60)
    /\ Len(cta_lines) >= 2

=============================================================================
